---- MODULE Spec2Model ----
(***************************************************************************)
(* A model of the seagrass CBN builder: the conversation orchestrator      *)
(* (src/src/App.vue), the response ingestion pipeline (src/src/lib/llm.ts),*)
(* the network diff (compareNetworks in src/src/App.vue) and the graph     *)
(* view (NetworkGraph.vue, in src/src/composables/useColorScale.ts).       *)
(***************************************************************************)
EXTENDS Integers, Sequences, FiniteSets, TLC

(***************************************************************************)
(* JavaScript values.  Every value is a tagged record, so that values of   *)
(* different JavaScript types can be told apart by their tag.              *)
(***************************************************************************)
Undefined == [t |-> "undefined"]

Null == [t |-> "null"]

Num(n) == [t |-> "number", n |-> n]

Arr(items) == [t |-> "array", items |-> items]

Str(text) == [t |-> "string", text |-> text]

\* a CBN object: ordered node and edge collections and the (empty) CPD map
Cbn(nodes, edges) == [t |-> "cbn", nodes |-> nodes, edges |-> edges, cpds |-> <<>>]

\* an object that has only the listed keys (not the shape of a CBN)
Obj(keys) == [t |-> "object", keys |-> keys]

\* JavaScript truthiness: undefined, null, 0 and "" are falsy, objects and arrays truthy
Truthy(v) ==
    ~(v.t \in {"undefined", "null"} \/ (v.t = "number" /\ v.n = 0)
      \/ (v.t = "string" /\ v.text = ""))

\* the JavaScript expression  v || d
OrElse(v, d) == IF Truthy(v) THEN v ELSE d

(***************************************************************************)
(* Objects of the domain model (Node, Edge) are ordered lists of           *)
(* properties: JSON.stringify writes the keys in insertion order.          *)
(***************************************************************************)
PStr(k, s) == [k |-> k, kind |-> "string", v |-> <<s>>]

PArr(k, l) == [k |-> k, kind |-> "array", v |-> l]

HasProp(o, k) == \E i \in 1..Len(o) : o[i].k = k

\* o.k : the kind and the value of the property, kind "undefined" when absent
Prop(o, k) ==
    IF HasProp(o, k)
    THEN LET i == CHOOSE i \in 1..Len(o) : o[i].k = k IN <<o[i].kind, o[i].v>>
    ELSE <<"undefined", <<>>>>

\* `${o.k}` : the property as a template literal prints it
PropText(o, k) ==
    LET p == Prop(o, k)
    IN IF p[1] = "string" THEN p[2][1] ELSE "undefined"

MkNode(id, name, states, category) ==
    <<PStr("id", id), PStr("name", name), PArr("states", states), PStr("category", category)>>

MkEdge(id, from, to) == <<PStr("id", id), PStr("from", from), PStr("to", to)>>

initialCBN ==
    Cbn(<< MkNode("1", "Local Support", <<"Weak", "Strong">>, "Social"),
           MkNode("2", "Restoration Investment", <<"Limited", "Adequate">>, "Management"),
           MkNode("3", "Water Quality", <<"Poor", "Good">>, "Environmental"),
           MkNode("4", "Seagrass Biomass", <<"Low", "Medium", "High">>, "Environmental"),
           MkNode("5", "Carbon Sequestration", <<"Low", "High">>, "Environmental"),
           MkNode("6", "Light Availability", <<"Limited", "Optimal">>, "Environmental"),
           MkNode("7", "Sediment Conditions", <<"Poor", "Good">>, "Environmental"),
           MkNode("8", "Carbon Credits", <<"Unavailable", "Available">>, "Economic"),
           MkNode("9", "Economic Benefits", <<"Low", "Medium", "High">>, "Economic") >>,
        << MkEdge("e1", "1", "2"), MkEdge("e2", "2", "3"), MkEdge("e3", "3", "4"),
           MkEdge("e4", "4", "5"), MkEdge("e5", "3", "6"), MkEdge("e6", "6", "4"),
           MkEdge("e7", "7", "4"), MkEdge("e8", "5", "8"), MkEdge("e9", "8", "9"),
           MkEdge("e10", "9", "1") >>)

(***************************************************************************)
(* JSON.stringify of the domain objects (no indentation).                  *)
(***************************************************************************)
RECURSIVE Join(_, _)
\* Array.prototype.join on a list of strings
Join(seq, sep) ==
    IF seq = <<>> THEN ""
    ELSE IF Len(seq) = 1 THEN seq[1]
    ELSE seq[1] \o sep \o Join(Tail(seq), sep)

Quote(s) == "\"" \o s \o "\""

StringifyProp(p) ==
    Quote(p.k) \o ":" \o
    (IF p.kind = "string" THEN Quote(p.v[1])
     ELSE "[" \o Join([i \in 1..Len(p.v) |-> Quote(p.v[i])], ",") \o "]")

\* JSON.stringify(o) for a Node or an Edge: the properties in insertion order
StringifyObj(o) ==
    "{" \o Join([i \in 1..Len(o) |-> StringifyProp(o[i])], ",") \o "}"

StringifyCbn(c) ==
    "{\"nodes\":[" \o Join([i \in 1..Len(c.nodes) |-> StringifyObj(c.nodes[i])], ",")
    \o "],\"edges\":[" \o Join([i \in 1..Len(c.edges) |-> StringifyObj(c.edges[i])], ",")
    \o "],\"cpds\":{}}"

(***************************************************************************)
(* The agent's reply text is a sequence of tokens: prose, white space,     *)
(* code-fence markers, braces, commas and object members ("key":value).    *)
(* A member whose value is a network literal carries braces of its own.    *)
(***************************************************************************)
NetSmall ==
    Cbn(<< MkNode("1", "Local Support", <<"Weak", "Strong">>, "Social"),
           MkNode("10", "Tourism", <<"Low", "High">>, "Economic") >>,
        << MkEdge("e1", "1", "10") >>)

\* an agent network that breaks the data model: a dangling edge endpoint
NetDangling ==
    Cbn(<< MkNode("1", "Local Support", <<"Weak", "Strong">>, "Social") >>,
        << MkEdge("e1", "1", "99") >>)

\* an agent network that breaks the data model: two nodes with one id
NetDupIds ==
    Cbn(<< MkNode("1", "Local Support", <<"Weak", "Strong">>, "Social"),
           MkNode("1", "Tourism", <<"Low", "High">>, "Economic") >>,
        << >>)

KeyText(key) == Quote(key) \o ":"

Member(key, text, val) == [src |-> KeyText(key) \o text, key |-> key, val |-> val]

Members ==
    << Member("updated_cbn", "null", Null),
       Member("updated_cbn", StringifyCbn(NetSmall), NetSmall),
       Member("updated_cbn", StringifyCbn(NetDangling), NetDangling),
       Member("updated_cbn", StringifyCbn(NetDupIds), NetDupIds),
       Member("updated_cbn", "{\"edges\":[]}", Obj(<<"edges">>)),
       Member("tentative_suggestions", "[\"ok\"]", Arr(<<"ok">>)),
       Member("tentative_suggestions", "[\"s1\",\"s2\"]", Arr(<<"s1", "s2">>)),
       Member("tentative_suggestions", "null", Null),
       Member("tentative_suggestions", "5", Num(5)),
       Member("reflection_prompts", "[]", Arr(<<>>)),
       Member("reflection_prompts", "[\"q1\"]", Arr(<<"q1">>)),
       Member("reflection_prompts", "\"later\"", Str("later")),
       Member("subclaims", "[]", Arr(<<>>)),
       Member("subclaims", "[\"c1\"]", Arr(<<"c1">>)) >>

IsWs(tok) == tok \in {" ", "\n"}

IsMember(tok) == \E k \in 1..Len(Members) : Members[k].src = tok

MemberOf(tok) == Members[CHOOSE k \in 1..Len(Members) : Members[k].src = tok]

\* a member whose value is written as an object literal { ... }
IsNetMember(tok) == IsMember(tok) /\ MemberOf(tok).val.t \in {"cbn", "object"}

HasOpenBrace(tok) == tok = "{" \/ IsNetMember(tok)

HasCloseBrace(tok) == tok = "}" \/ IsNetMember(tok)

\* content.match(/\{[\s\S]*\}/): greedy, from the first "{" to the last "}".
\* from/to are token positions; [found |-> FALSE] is the null match.
RegexMatch(content) ==
    LET opens == {i \in 1..Len(content) : HasOpenBrace(content[i])}
        closes == {j \in 1..Len(content) : HasCloseBrace(content[j])}
    IN IF opens = {} \/ closes = {} THEN [found |-> FALSE, from |-> 0, to |-> 0]
       ELSE LET i == CHOOSE i \in opens : \A k \in opens : i <= k
                j == CHOOSE j \in closes : \A k \in closes : k <= j
            IN IF i < j \/ (i = j /\ IsNetMember(content[i]))
               THEN [found |-> TRUE, from |-> i, to |-> j]
               ELSE [found |-> FALSE, from |-> 0, to |-> 0]

RECURSIVE TrimStart(_)
TrimStart(toks) ==
    IF toks # <<>> /\ IsWs(Head(toks)) THEN TrimStart(Tail(toks)) ELSE toks

RECURSIVE TrimEnd(_)
TrimEnd(toks) ==
    IF toks # <<>> /\ IsWs(toks[Len(toks)])
    THEN TrimEnd(SubSeq(toks, 1, Len(toks) - 1)) ELSE toks

\* Trim with the call of trim() left out
TrimOmitted(toks) == Join(toks, "")

\* String.prototype.trim, then the text as one string
Trim(toks) == Join(TrimEnd(TrimStart(toks)), "")

\* content.substring(0, content.indexOf(jsonStr)).trim(): the text before the
\* match; a match that starts inside a member leaves the member's key text before it
Explanation(content, m) ==
    Trim(SubSeq(content, 1, m.from - 1)
         \o (IF IsNetMember(content[m.from])
             THEN <<KeyText(MemberOf(content[m.from]).key)>> ELSE <<>>))

\* JSON.parse(jsonStr) of the matched text: [ok |-> FALSE] is a SyntaxError,
\* otherwise obj is the parsed object as its list of members
JsonParse(content, m) ==
    LET inner == SelectSeq(SubSeq(content, m.from + 1, m.to - 1), LAMBDA tok : ~IsWs(tok))
        wellFormed ==
            \/ inner = <<>>
            \/ /\ Len(inner) % 2 = 1
               /\ \A k \in 1..Len(inner) :
                      IF k % 2 = 1 THEN IsMember(inner[k]) ELSE inner[k] = ","
    IN IF m.from = m.to
       THEN \* the match is one network literal: it parses to that network object
            [ok |-> TRUE,
             obj |-> LET net == MemberOf(content[m.from]).val
                     IN IF net.t = "cbn"
                        THEN << [key |-> "nodes", val |-> [t |-> "nodes", recs |-> net.nodes]],
                                [key |-> "edges", val |-> [t |-> "edges", recs |-> net.edges]],
                                [key |-> "cpds", val |-> [t |-> "cpds"]] >>
                        ELSE [k \in 1..Len(net.keys) |-> [key |-> net.keys[k], val |-> Arr(<<>>)]]]
       ELSE IF content[m.from] = "{" /\ content[m.to] = "}" /\ wellFormed
       THEN [ok |-> TRUE,
             obj |-> [k \in 1..((Len(inner) + 1) \div 2) |->
                          [key |-> MemberOf(inner[2 * k - 1]).key,
                           val |-> MemberOf(inner[2 * k - 1]).val]]]
       ELSE [ok |-> FALSE, obj |-> <<>>]

\* obj.key : the value of the last member of that key, undefined when absent
Field(obj, key) ==
    LET at == {k \in 1..Len(obj) : obj[k].key = key}
    IN IF at = {} THEN Undefined
       ELSE obj[CHOOSE k \in at : \A l \in at : l <= k].val

(***************************************************************************)
(* The agent exchange of one call and LLMService.processUserInput.         *)
(*   kind "fetch_rejects": fetch() rejects (transport failure)             *)
(*   kind "http_error"   : response.ok is false                            *)
(*   kind "no_content"   : the body has no choices[0].message.content      *)
(*   kind "ok"           : content is the reply text ("" is the empty      *)
(*                         token list, which JavaScript takes as falsy)    *)
(***************************************************************************)
Exchange(kind, content) == [kind |-> kind, content |-> content]

LLMResponse(net, suggestions, prompts, subclaims) ==
    [updated_cbn |-> net, tentative_suggestions |-> suggestions,
     reflection_prompts |-> prompts, subclaims |-> subclaims]

Threw == [threw |-> TRUE, value |-> LLMResponse(Null, <<>>, Null, Null)]

Returned(r) == [threw |-> FALSE, value |-> r]

\* BuildResponse with the network taken as sent, without "|| cbn"
BuildResponseNetworkAsSent(cbn, explanation, jsonResponse) ==
    LLMResponse(Field(jsonResponse, "updated_cbn"),
                <<explanation>>
                    \o OrElse(Field(jsonResponse, "tentative_suggestions"), Arr(<<>>)).items,
                OrElse(Field(jsonResponse, "reflection_prompts"), Arr(<<>>)),
                OrElse(Field(jsonResponse, "subclaims"), Arr(<<>>)))

\* BuildResponse with the lists taken as sent, without "|| []"
BuildResponseListsAsSent(cbn, explanation, jsonResponse) ==
    LLMResponse(OrElse(Field(jsonResponse, "updated_cbn"), cbn),
                <<explanation>>
                    \o OrElse(Field(jsonResponse, "tentative_suggestions"), Arr(<<>>)).items,
                Field(jsonResponse, "reflection_prompts"),
                Field(jsonResponse, "subclaims"))

\* the object literal returned by the try block
BuildResponse(cbn, explanation, jsonResponse) ==
    LLMResponse(OrElse(Field(jsonResponse, "updated_cbn"), cbn),
                <<explanation>>
                    \o OrElse(Field(jsonResponse, "tentative_suggestions"), Arr(<<>>)).items,
                OrElse(Field(jsonResponse, "reflection_prompts"), Arr(<<>>)),
                OrElse(Field(jsonResponse, "subclaims"), Arr(<<>>)))

\* the try block of processUserInput: Threw when a statement of it throws
TryProcessUserInput(cbn, ex) ==
    IF ex.kind = "fetch_rejects" THEN Threw
    ELSE IF ex.kind = "http_error" THEN Threw
    ELSE IF ex.kind = "no_content" \/ ex.content = <<>> THEN Threw
    ELSE LET m == RegexMatch(ex.content)
         IN IF ~m.found THEN Threw
            ELSE LET parsed == JsonParse(ex.content, m)
                 IN IF ~parsed.ok THEN Threw
                    \* spreading a value that is not iterable is a TypeError
                    ELSE IF OrElse(Field(parsed.obj, "tentative_suggestions"),
                                   Arr(<<>>)).t # "array" THEN Threw
                    ELSE Returned(BuildResponse(cbn, Explanation(ex.content, m), parsed.obj))

\* CatchResponse with a single retry prompt
CatchResponseOnePrompt(cbn) ==
    LLMResponse(cbn, <<"Error: Invalid response format">>, Arr(<<"Please try again">>), Arr(<<>>))

\* the catch block of processUserInput
CatchResponse(cbn) ==
    LLMResponse(cbn,
        <<"Water Quality has a direct positive influence on Seagrass Biomass. Good water quality, characterized by appropriate light penetration and nutrient levels, is essential for seagrass growth and survival. When water quality is poor, it can limit photosynthesis and reduce seagrass biomass production.">>,
        Arr(<<"How might improving water quality affect seagrass recovery rates?",
              "What other environmental factors interact with water quality?">>),
        Arr(<<>>))

processUserInput(cbn, ex) ==
    LET r == TryProcessUserInput(cbn, ex)
    IN IF r.threw THEN CatchResponse(cbn) ELSE r.value

(***************************************************************************)
(* The replies the agent is taken to give: a prefix, an object body and a  *)
(* suffix.  The body lists at most one member per key, in the order of the *)
(* prompt; the shapes are a complete object, an object cut before its      *)
(* closing brace, the members without braces, an object with a trailing    *)
(* comma, and no object at all.                                            *)
(***************************************************************************)
\* the code-fence markers (three backquotes), written here with tildes
FenceJson == "~~~json"

Fence == "~~~"

Prose == "Water Quality affects Seagrass Biomass."

Prefixes ==
    { <<>>, <<Prose, "\n">>, <<"\n">>, <<"not json at all">>, <<FenceJson, "\n">>,
      <<"See", " ", "{", "}", "\n">> }

Suffixes == { <<>>, <<"\n", Fence>>, <<"\n", "Hope this helps.">>, <<"}">> }

MembersOfKey(key) == {Members[k].src : k \in {i \in 1..Len(Members) : Members[i].key = key}}

\* zero or one member of the key
Choice(key) == {<<>>} \cup {<<src>> : src \in MembersOfKey(key)}

RECURSIVE WithCommas(_)
WithCommas(ms) ==
    IF Len(ms) <= 1 THEN ms ELSE <<ms[1], ",">> \o WithCommas(Tail(ms))

MemberLists ==
    {u \o s \o r \o c : u \in Choice("updated_cbn"), s \in Choice("tentative_suggestions"),
                        r \in Choice("reflection_prompts"), c \in Choice("subclaims")}

Bodies ==
    {<<>>}
    \cup {<<"{">> \o WithCommas(ms) \o <<"}">> : ms \in MemberLists}
    \cup {<<"{">> \o WithCommas(ms) : ms \in MemberLists}
    \cup {WithCommas(ms) : ms \in MemberLists}
    \cup {<<"{">> \o WithCommas(ms) \o <<",", "}">> : ms \in MemberLists}

Contents == {p \o b \o x : p \in Prefixes, b \in Bodies, x \in Suffixes}

Exchanges ==
    {Exchange("fetch_rejects", <<>>), Exchange("http_error", <<>>), Exchange("no_content", <<>>)}
    \cup {Exchange("ok", c) : c \in Contents}

\* the networks the pipeline is handed as the last known-good network
Fallbacks == {initialCBN, NetSmall}

\* the bullet and the arrow of the narration texts, written in ASCII
Bullet == "*"

Arrow == "->"

(***************************************************************************)
(* compareNetworks (App.vue) and the networks it is tried on.              *)
(***************************************************************************)
\* a.id === b.id on two property values: strings by value, undefined with undefined
StrictEquals(p, q) == p[1] = q[1] /\ p[1] \in {"string", "undefined"} /\ p[2] = q[2]

\* list.find(x => x.id === id): the position of the first match, 0 for undefined
FindById(list, id) ==
    LET at == {i \in 1..Len(list) : StrictEquals(Prop(list[i], "id"), id)}
    IN IF at = {} THEN 0 ELSE CHOOSE i \in at : \A k \in at : i <= k

\* newCBN.nodes.find(n => n.id === id)?.name as a template literal prints it
NameById(nodes, id) ==
    IF FindById(nodes, id) = 0 THEN "undefined"
    ELSE PropText(nodes[FindById(nodes, id)], "name")

\* NodeChange with the previous node looked up by name instead of id
NodeChangeByName(oldCBN, newNode) ==
    LET at == {i \in 1..Len(oldCBN.nodes) :
                  Prop(oldCBN.nodes[i], "name") = Prop(newNode, "name")}
    IN IF at = {} THEN <<"Added new node: " \o PropText(newNode, "name")>>
       ELSE IF StringifyObj(oldCBN.nodes[CHOOSE i \in at : \A k \in at : i <= k])
                   # StringifyObj(newNode)
       THEN <<"Updated node: " \o PropText(newNode, "name")>>
       ELSE <<>>

\* the entry the first forEach pushes for newNode, as a list of zero or one entry
NodeChange(oldCBN, newNode) ==
    LET at == FindById(oldCBN.nodes, Prop(newNode, "id"))
    IN IF at = 0 THEN <<"Added new node: " \o PropText(newNode, "name")>>
       ELSE IF StringifyObj(oldCBN.nodes[at]) # StringifyObj(newNode)
       THEN <<"Updated node: " \o PropText(newNode, "name")>>
       ELSE <<>>

\* the entry the second forEach pushes for newEdge
EdgeChange(oldCBN, newCBN, newEdge) ==
    LET at == FindById(oldCBN.edges, Prop(newEdge, "id"))
    IN IF at = 0
       THEN <<"Added new relationship: " \o NameById(newCBN.nodes, Prop(newEdge, "from"))
              \o " " \o Arrow \o " " \o NameById(newCBN.nodes, Prop(newEdge, "to"))>>
       ELSE IF StringifyObj(oldCBN.edges[at]) # StringifyObj(newEdge)
       THEN <<"Updated relationship probabilities">>
       ELSE <<>>

RECURSIVE Flatten(_)
\* the pushes of a forEach, in its order
Flatten(lists) == IF lists = <<>> THEN <<>> ELSE Head(lists) \o Flatten(Tail(lists))

\* compareNetworks with a third pass that reports what the new network dropped
compareNetworksWithRemovals(oldCBN, newCBN) ==
    Flatten([i \in 1..Len(newCBN.nodes) |-> NodeChange(oldCBN, newCBN.nodes[i])])
    \o Flatten([i \in 1..Len(newCBN.edges) |-> EdgeChange(oldCBN, newCBN, newCBN.edges[i])])
    \o Flatten([i \in 1..Len(oldCBN.nodes) |->
                   IF FindById(newCBN.nodes, Prop(oldCBN.nodes[i], "id")) = 0
                   THEN <<"Removed node: " \o PropText(oldCBN.nodes[i], "name")>> ELSE <<>>])
    \o Flatten([i \in 1..Len(oldCBN.edges) |->
                   IF FindById(newCBN.edges, Prop(oldCBN.edges[i], "id")) = 0
                   THEN <<"Removed relationship">> ELSE <<>>])

\* compareNetworks with the edges walked before the nodes
compareNetworksEdgesFirst(oldCBN, newCBN) ==
    Flatten([i \in 1..Len(newCBN.edges) |-> EdgeChange(oldCBN, newCBN, newCBN.edges[i])])
    \o Flatten([i \in 1..Len(newCBN.nodes) |-> NodeChange(oldCBN, newCBN.nodes[i])])

compareNetworks(oldCBN, newCBN) ==
    Flatten([i \in 1..Len(newCBN.nodes) |-> NodeChange(oldCBN, newCBN.nodes[i])])
    \o Flatten([i \in 1..Len(newCBN.edges) |-> EdgeChange(oldCBN, newCBN, newCBN.edges[i])])

MaxDiffNodes == 2

MaxDiffEdges == 1

\* the node n1/A as an object whose keys were inserted in another order
NodeKeysReordered ==
    <<PStr("name", "A"), PStr("id", "n1"), PArr("states", <<"Low", "High">>),
      PStr("category", "Social")>>

DiffNodes ==
    { MkNode("n1", "A", <<"Low", "High">>, "Social"),
      MkNode("n1", "B", <<"Low", "High">>, "Social"),
      MkNode("n2", "A", <<"Low", "High">>, "Social"),
      NodeKeysReordered }

DiffEdges == { MkEdge("e1", "n1", "n2"), MkEdge("e1", "n2", "n1") }

\* the lists over S of at most n elements
SeqsUpTo(S, n) == UNION {[1..k -> S] : k \in 0..n}

\* the values of type CBN the diff is tried on (the type does not ask for unique ids)
DiffNetworks ==
    {Cbn(ns, es) : ns \in SeqsUpTo(DiffNodes, MaxDiffNodes), es \in SeqsUpTo(DiffEdges, MaxDiffEdges)}

NoDiff == [oldCBN |-> Cbn(<<>>, <<>>), newCBN |-> Cbn(<<>>, <<>>), changes |-> <<>>, returned |-> FALSE]

NoResponse == [t |-> "none"]

NoExchange == Exchange("none", <<>>)

VARIABLES
    cbn,        \* App.vue: the held network, cbn.value
    messages,   \* App.vue: the conversation, messages.value
    turns,      \* the calls of handleSendMessage, in the order they started
    exchange,   \* the agent exchange of the call that resolved last
    response,   \* the result processUserInput returned last
    clicks,     \* the number of graph clicks handled so far
    diff,       \* one call of compareNetworks: its arguments and its result
    phase,          \* NetworkGraph: "setup" (not mounted yet), "mounted" or "unmounted"
    container,      \* NetworkGraph: container.value is an element (the rendering surface)
    props,          \* NetworkGraph: props.nodes and props.edges, as lists of ids
    network,        \* NetworkGraph: network.value, null or a vis-network instance
    nodePositions,  \* NetworkGraph: the Map of node id to position, in insertion order
    lastRun         \* the handler of the graph view that ran last and the calls it made

appVars == <<cbn, messages, turns, exchange, response, clicks, diff>>

viewVars == <<phase, container, props, network, nodePositions, lastRun>>

vars == <<appVars, viewVars>>

(***************************************************************************)
(* The graph view before it is set up; the specifications of the           *)
(* orchestrator, the pipeline and the diff leave it there.                 *)
(***************************************************************************)
NoNetwork == [t |-> "null"]

Run(handler, calls, threw) == [handler |-> handler, calls |-> calls, threw |-> threw]

NoRun == Run("none", <<>>, FALSE)

NoProps == [nodes |-> <<>>, edges |-> <<>>]

ViewIdle ==
    /\ phase = "setup"
    /\ container = FALSE
    /\ props = NoProps
    /\ network = NoNetwork
    /\ nodePositions = <<>>
    /\ lastRun = NoRun

(***************************************************************************)
(* The conversation orchestrator (App.vue).  A conversation entry is an    *)
(* object {text, sender}; oid tells the objects apart that the code        *)
(* compares by identity: 0 for an ordinary entry, the turn's number for    *)
(* the loadingMessage object of that turn.                                 *)
(***************************************************************************)
MaxTurns == 2

MaxClicks == 1

Msg(text, sender) == [text |-> text, sender |-> sender, oid |-> 0]

loadingMessage(t) == [text |-> "Processing...", sender |-> "bot", oid |-> t]

WelcomeMessage ==
    Msg("Welcome to the Seagrass CBN Builder! How can I help you explore and refine the causal network?",
        "bot")

\* what the user may have typed into the input box
UserTexts == {"What factors influence Local Support?", " "}

\* newMessage.value.trim() is the empty string
IsBlank(text) == text \in {"", " "}

\* the agent exchanges a turn may meet
TurnExchanges ==
    LET M(k) == Members[k].src
    IN { Exchange("fetch_rejects", <<>>),
         Exchange("ok", <<Prose, "\n", "{", M(2), ",", M(7), ",", M(11), "}">>),
         Exchange("ok", <<"{", M(3), "}">>),
         Exchange("ok", <<"{", M(6), ",", M(12), "}">>) }

\* the ids the graph view may report as clicked: ids of the nodes and edges it shows
NodeClickIds == {"1"}

EdgeClickIds == {"e3"}

Awaiting == {t \in 1..Len(turns) : turns[t].st = "awaiting"}

\* messages.value.findIndex(msg => msg === loadingMessage), 0 for -1
FindIndex(msgs, obj) ==
    LET at == {i \in 1..Len(msgs) : msgs[i] = obj}
    IN IF at = {} THEN 0 ELSE CHOOSE i \in at : \A k \in at : i <= k

\* messages.value.splice(i, 1) at the 1-based position i
Splice(msgs, i) == SubSeq(msgs, 1, i - 1) \o SubSeq(msgs, i + 1, Len(msgs))

\* RemoveLoading with the loading message found by its text, not by identity
RemoveLoadingByText(msgs, t) ==
    LET at == {i \in 1..Len(msgs) : msgs[i].text = "Processing..."}
    IN IF at # {} THEN Splice(msgs, CHOOSE i \in at : \A k \in at : i <= k) ELSE msgs

RemoveLoading(msgs, t) ==
    LET loadingIndex == FindIndex(msgs, loadingMessage(t))
    IN IF loadingIndex # 0 THEN Splice(msgs, loadingIndex) ELSE msgs

\* v.length > 0 for a value that may be no array: a string has a length too,
\* and undefined > 0 is false
NonEmpty(v) == (v.t = "array" /\ Len(v.items) > 0) \/ (v.t = "string" /\ v.text # "")

\* response.reflection_prompts.join(...) is a TypeError: a string has no join
JoinThrows(r) == NonEmpty(r.reflection_prompts) /\ r.reflection_prompts.t # "array"

\* the entry the catch block of handleSendMessage pushes
ApologyMessage ==
    Msg("I understand you're asking about the relationship between Water Quality and Seagrass Biomass. Water Quality directly affects seagrass growth and survival through light availability and nutrient levels. Would you like to explore specific aspects of this relationship?",
        "bot")

\* the catch block with the apology left out
CatchChatErrorSilent(msgs, t) == RemoveLoading(msgs, t)

\* the catch block of handleSendMessage for turn t: the turn's loading message
\* is removed if it is still there, then the apology is pushed
CatchChatError(msgs, t) == Append(RemoveLoading(msgs, t), ApologyMessage)

\* the entries the try block pushes for a response, up to a throw of join
Narration(r) ==
    (IF Len(r.tentative_suggestions) > 0
     THEN <<Msg(r.tentative_suggestions[1], "bot")>> ELSE <<>>)
    \o (IF Len(r.tentative_suggestions) > 1
        THEN <<Msg("Additional insights:\n" \o Join(Tail(r.tentative_suggestions), "\n"), "bot")>>
        ELSE <<>>)
    \o (IF NonEmpty(r.reflection_prompts) /\ ~JoinThrows(r)
        THEN <<Msg("Consider these aspects:\n" \o Bullet \o " "
                   \o Join(r.reflection_prompts.items, "\n" \o Bullet \o " "), "bot")>>
        ELSE <<>>)

\* NetworkAfter with the result's network assigned to cbn.value unchecked
NetworkAfterAssigned(held, r) == IF r.updated_cbn.t = "cbn" THEN r.updated_cbn ELSE held

\* NetworkAfter with the result's nodes patched into the held network
NetworkAfterPatched(held, r) ==
    IF r.updated_cbn.t = "cbn" THEN Cbn(r.updated_cbn.nodes, held.edges) ELSE held

\* the held network after a call has resolved with response r:
\* handleSendMessage has no assignment to cbn.value
NetworkAfter(held, r) == held

\* the turn records which turns were still unresolved when a newer one started
Supersede(ts) == [t \in 1..Len(ts) |->
                     IF ts[t].st = "awaiting" THEN [ts[t] EXCEPT !.superseded = TRUE] ELSE ts[t]]

Init ==
    /\ cbn = initialCBN
    /\ messages = <<WelcomeMessage>>
    /\ turns = <<>>
    /\ exchange = NoExchange
    /\ response = NoResponse
    /\ clicks = 0
    /\ diff = NoDiff
    /\ ViewIdle

\* ChatBox.sendMessage emits send-message; handleSendMessage runs up to its await
SendMessage(message) ==
    /\ Len(turns) < MaxTurns
    /\ ~IsBlank(message)
    /\ messages' = messages \o <<Msg(message, "user"), loadingMessage(Len(turns) + 1)>>
    /\ turns' = Append(Supersede(turns),
                       [st |-> "awaiting", arg |-> cbn, superseded |-> FALSE, seq |-> 0,
                        raised |-> FALSE])
    /\ UNCHANGED <<cbn, exchange, response, clicks, diff, viewVars>>

\* the call of turn t resolves (processUserInput returns for every exchange):
\* the rest of handleSendMessage's try block and, when the narration throws,
\* its catch block, which finds the loading message already removed
ResolveCall(t, ex) ==
    /\ t \in Awaiting
    /\ \E r \in {processUserInput(turns[t].arg, ex)} :
          /\ response' = r
          /\ messages' =
                 IF JoinThrows(r)
                 THEN CatchChatError(RemoveLoading(messages, t) \o Narration(r), t)
                 ELSE RemoveLoading(messages, t) \o Narration(r)
          /\ cbn' = NetworkAfter(cbn, r)
    /\ exchange' = ex
    /\ UNCHANGED <<clicks, diff, viewVars>>
    /\ turns' = [turns EXCEPT ![t].st = "done",
                              ![t].seq = Cardinality({u \in 1..Len(turns) : turns[u].st = "done"}) + 1]

\* handleNodeClick that also drops the clicked node from the held network
handleNodeClickEditing(nodeId) ==
    /\ clicks < MaxClicks
    /\ clicks' = clicks + 1
    /\ messages' = Append(messages, Msg("Selected node: " \o nodeId, "bot"))
    /\ cbn' = [cbn EXCEPT !.nodes = SelectSeq(@, LAMBDA n : Prop(n, "id") # <<"string", <<nodeId>>>>)]
    /\ UNCHANGED <<turns, exchange, response, diff, viewVars>>

handleNodeClick(nodeId) ==
    /\ clicks < MaxClicks
    /\ clicks' = clicks + 1
    /\ LET at == FindById(cbn.nodes, <<"string", <<nodeId>>>>)
       IN messages' =
              IF at # 0
              THEN Append(messages,
                       Msg("Selected node: " \o PropText(cbn.nodes[at], "name") \o "\nStates: "
                           \o Join(Prop(cbn.nodes[at], "states")[2], ", "), "bot"))
              ELSE messages
    /\ UNCHANGED <<cbn, turns, exchange, response, diff, viewVars>>

handleEdgeClick(edgeId) ==
    /\ clicks < MaxClicks
    /\ clicks' = clicks + 1
    /\ LET at == FindById(cbn.edges, <<"string", <<edgeId>>>>)
       IN messages' =
              IF at # 0
              THEN Append(messages,
                       Msg("Selected relationship: "
                           \o NameById(cbn.nodes, Prop(cbn.edges[at], "from"))
                           \o " " \o Arrow \o " "
                           \o NameById(cbn.nodes, Prop(cbn.edges[at], "to")), "bot"))
              ELSE messages
    /\ UNCHANGED <<cbn, turns, exchange, response, diff, viewVars>>

Next ==
    \/ \E message \in UserTexts : SendMessage(message)
    \/ \E t \in 1..MaxTurns, ex \in TurnExchanges : ResolveCall(t, ex)
    \/ \E id \in NodeClickIds : handleNodeClick(id)
    \/ \E id \in EdgeClickIds : handleEdgeClick(id)

Spec == Init /\ [][Next]_vars

(***************************************************************************)
(* handleSendMessage against any pipeline: the awaited call of             *)
(* processUserInput may also reject, which takes the handler from its      *)
(* await to its catch block.                                               *)
(***************************************************************************)
RejectCall(t) ==
    /\ t \in Awaiting
    /\ messages' = CatchChatError(messages, t)
    /\ turns' = [turns EXCEPT ![t].st = "done", ![t].raised = TRUE,
                              ![t].seq = Cardinality({u \in 1..Len(turns) : turns[u].st = "done"}) + 1]
    /\ UNCHANGED <<cbn, exchange, response, clicks, diff, viewVars>>

NextHandler ==
    \/ Next
    \/ \E t \in 1..MaxTurns : RejectCall(t)

SpecHandler == Init /\ [][NextHandler]_vars

(***************************************************************************)
(* The pipeline alone: one call of processUserInput on any fallback        *)
(* network and any agent exchange.                                         *)
(***************************************************************************)
InitPipeline ==
    /\ cbn \in Fallbacks
    /\ exchange \in Exchanges
    /\ response = NoResponse
    /\ messages = <<>>
    /\ turns = <<>>
    /\ clicks = 0
    /\ diff = NoDiff
    /\ ViewIdle

CallProcessUserInput ==
    /\ response = NoResponse
    /\ response' = processUserInput(cbn, exchange)
    /\ UNCHANGED <<cbn, messages, turns, exchange, clicks, diff, viewVars>>

NextPipeline == CallProcessUserInput

SpecPipeline == InitPipeline /\ [][NextPipeline]_vars

(***************************************************************************)
(* The diff alone: one call of compareNetworks on any two networks.        *)
(***************************************************************************)
InitDiff ==
    /\ \E o \in DiffNetworks, n \in DiffNetworks :
          diff = [oldCBN |-> o, newCBN |-> n, changes |-> <<>>, returned |-> FALSE]
    /\ cbn = initialCBN
    /\ messages = <<WelcomeMessage>>
    /\ turns = <<>>
    /\ exchange = NoExchange
    /\ response = NoResponse
    /\ clicks = 0
    /\ ViewIdle

CallCompareNetworks ==
    /\ ~diff.returned
    /\ diff' = [diff EXCEPT !.changes = compareNetworks(diff.oldCBN, diff.newCBN),
                            !.returned = TRUE]
    /\ UNCHANGED <<cbn, messages, turns, exchange, response, clicks, viewVars>>

NextDiff == CallCompareNetworks

SpecDiff == InitDiff /\ [][NextDiff]_vars

(***************************************************************************)
(* The graph view (NetworkGraph.vue, in src/src/composables/               *)
(* useColorScale.ts).  A vis-network instance is a record: the node ids it *)
(* shows, their positions, whether physics is enabled, whether it has been *)
(* destroyed, and the handlers registered with once('stabilized').         *)
(* While physics is enabled the solver may move every node: the view       *)
(* creates its nodes without 'fixed', so a stabilization ends with the     *)
(* nodes wherever the solver has put them.                                 *)
(***************************************************************************)
\* the cap on the handlers waiting for 'stabilized' on one instance
MaxPending == 2

\* the positions the layout and the physics solver may give a node
SolverPositions == {<<10, 20>>, <<35, -5>>}

\* the node and edge collections the parent may pass down
ViewProps ==
    { [nodes |-> <<"n1">>, edges |-> <<>>],
      [nodes |-> <<"n1", "n2">>, edges |-> <<>>],
      [nodes |-> <<"n1", "n2">>, edges |-> <<"e1">>],
      [nodes |-> <<"n2">>, edges |-> <<>>] }

IsNetwork(net) == net.t = "Network"

IdsOf(list) == {list[i] : i \in 1..Len(list)}

\* the placements of the listed nodes the solver may arrive at
Layouts(ids) == [IdsOf(ids) -> SolverPositions]

\* new Network(container, {nodes, edges}, options): physics enabled, the nodes
\* where the initial layout puts them, no listener yet
NewNetwork(prps, layout) ==
    [t |-> "Network", nodes |-> prps.nodes, edges |-> prps.edges, pos |-> layout,
     physics |-> TRUE, destroyed |-> FALSE, once |-> <<>>, applied |-> <<>>, reset |-> FALSE]

\* network.destroy()
Destroy(net) == [net EXCEPT !.destroyed = TRUE]

\* nodePositions.value.set(id, pos): a Map keeps the place of a key it has
MapSet(map, id, pos) ==
    IF \E i \in 1..Len(map) : map[i].id = id
    THEN [i \in 1..Len(map) |-> IF map[i].id = id THEN [id |-> id, pos |-> pos] ELSE map[i]]
    ELSE Append(map, [id |-> id, pos |-> pos])

RECURSIVE SetAll(_, _, _)
\* Object.entries(positions).forEach(([id, pos]) => nodePositions.value.set(id, pos))
SetAll(map, ids, positions) ==
    IF ids = <<>> THEN map
    ELSE SetAll(MapSet(map, Head(ids), positions[Head(ids)]), Tail(ids), positions)

\* savePositions and saveCurrentPositions: no-ops without an instance,
\* otherwise the positions of the instance written into the map
saveCurrentPositions(net, map) ==
    IF ~IsNetwork(net) THEN map ELSE SetAll(map, net.nodes, net.pos)

RECURSIVE MoveNodesUnfiltered(_, _)
\* MoveNodes with a position given to every stored id, shown or not
MoveNodesUnfiltered(net, map) ==
    IF map = <<>> THEN net
    ELSE MoveNodesUnfiltered(
             [net EXCEPT !.pos = [id \in DOMAIN net.pos \cup {Head(map).id} |->
                                     IF id = Head(map).id THEN Head(map).pos ELSE net.pos[id]],
                         !.applied = Append(@, Head(map))],
             Tail(map))

RECURSIVE MoveNodes(_, _)
\* nodePositions.value.forEach((pos, id) => network.value?.moveNode(id, pos.x, pos.y)):
\* moveNode places a node the instance has and does nothing for an id it has not
MoveNodes(net, map) ==
    IF map = <<>> THEN net
    ELSE MoveNodes(IF Head(map).id \in IdsOf(net.nodes)
                   THEN [net EXCEPT !.pos[Head(map).id] = Head(map).pos,
                                    !.applied = Append(@, Head(map))]
                   ELSE net,
                   Tail(map))

\* initNetwork without the guard on container.value
initNetworkUnguarded(surface, prps, net, map, layout) ==
    IF ~surface
    THEN [network |-> net, calls |-> <<"new Network">>, threw |-> TRUE]
    ELSE [network |-> [MoveNodes(NewNetwork(prps, layout), map) EXCEPT !.once = <<"physicsOff">>],
          calls |-> <<"new Network", "on click", "on stabilized", "on doubleClick">>
                    \o [i \in 1..Len(map) |-> "moveNode " \o map[i].id]
                    \o <<"once stabilized">>,
          threw |-> FALSE]

\* initNetwork without the once('stabilized') registration at its end
initNetworkPhysicsKept(surface, prps, net, map, layout) ==
    IF ~surface THEN [network |-> net, calls |-> <<>>, threw |-> FALSE]
    ELSE [network |-> MoveNodes(NewNetwork(prps, layout), map),
          calls |-> <<"new Network", "on click", "on stabilized", "on doubleClick">>
                    \o [i \in 1..Len(map) |-> "moveNode " \o map[i].id],
          threw |-> FALSE]

\* initNetwork: nothing without the container; otherwise a new instance, its
\* event handlers, the stored positions re-applied, and physics to be switched
\* off at the next 'stabilized'.  The result is the new network.value, the
\* calls made, and whether a call threw.
initNetwork(surface, prps, net, map, layout) ==
    IF ~surface THEN [network |-> net, calls |-> <<>>, threw |-> FALSE]
    ELSE [network |-> [MoveNodes(NewNetwork(prps, layout), map) EXCEPT !.once = <<"physicsOff">>],
          calls |-> <<"new Network", "on click", "on stabilized", "on doubleClick">>
                    \o [i \in 1..Len(map) |-> "moveNode " \o map[i].id]
                    \o <<"once stabilized">>,
          threw |-> FALSE]

\* the calls of a handler registered with once('stabilized')
OnceCalls(handler) ==
    IF handler = "physicsOff" THEN <<"setOptions physics off">>
    ELSE <<"setOptions physics off", "fit">>

\* resetView that registers its handler and leaves physics as it is
resetViewPhysicsAsIs(net) ==
    IF ~IsNetwork(net) THEN [network |-> net, calls |-> <<>>, threw |-> FALSE]
    ELSE [network |-> [net EXCEPT !.reset = TRUE, !.once = Append(@, "physicsOffFit")],
          calls |-> <<"once stabilized">>,
          threw |-> net.destroyed]

\* resetView: physics on, and a handler for the next 'stabilized' that
\* switches physics off and fits the viewport
resetView(net) ==
    IF ~IsNetwork(net) THEN [network |-> net, calls |-> <<>>, threw |-> FALSE]
    ELSE [network |-> [net EXCEPT !.physics = TRUE, !.reset = TRUE,
                                  !.once = Append(@, "physicsOffFit")],
          calls |-> <<"setOptions physics on", "once stabilized">>,
          threw |-> net.destroyed]

handleZoom(net, direction) ==
    IF ~IsNetwork(net) THEN [network |-> net, calls |-> <<>>, threw |-> FALSE]
    ELSE [network |-> net, calls |-> <<"getScale", "moveTo " \o direction>>,
          threw |-> net.destroyed]

InitView ==
    /\ phase = "setup"
    /\ container = FALSE
    /\ props \in ViewProps
    /\ network = NoNetwork
    /\ nodePositions = <<>>
    /\ lastRun = NoRun
    /\ cbn = initialCBN
    /\ messages = <<WelcomeMessage>>
    /\ turns = <<>>
    /\ exchange = NoExchange
    /\ response = NoResponse
    /\ clicks = 0
    /\ diff = NoDiff

\* the component is mounted: the template ref is set, then onMounted runs
Mount ==
    /\ phase = "setup"
    /\ phase' = "mounted"
    /\ container' = TRUE
    /\ \E layout \in Layouts(props.nodes) :
          \E r \in {initNetwork(TRUE, props, network, nodePositions, layout)} :
              /\ network' = r.network
              /\ lastRun' = Run("onMounted", r.calls, r.threw)
    /\ UNCHANGED <<props, nodePositions, appVars>>

\* the callback of watch with the view destroyed before its positions are
\* read: a destroyed view has no node left to report
PropsChangeDestroyFirst(prps) ==
    /\ phase \in {"setup", "mounted"}
    /\ prps # props
    /\ props' = prps
    /\ \E layout \in Layouts(prps.nodes) :
          \E r \in {initNetwork(container, prps,
                                IF IsNetwork(network) THEN Destroy(network) ELSE network,
                                nodePositions, layout)} :
              /\ nodePositions' = nodePositions
              /\ network' = r.network
              /\ lastRun' = Run("watch",
                                (IF IsNetwork(network) THEN <<"destroy", "getPositions">> ELSE <<>>)
                                    \o r.calls,
                                r.threw)
    /\ UNCHANGED <<phase, container, appVars>>

\* the parent passes other nodes or edges: the callback of watch
PropsChange(prps) ==
    /\ phase \in {"setup", "mounted"}
    /\ prps # props
    /\ props' = prps
    /\ \E saved \in {saveCurrentPositions(network, nodePositions)},
          layout \in Layouts(prps.nodes) :
          \E r \in {initNetwork(container, prps,
                                IF IsNetwork(network) THEN Destroy(network) ELSE network,
                                saved, layout)} :
              /\ nodePositions' = saved
              /\ network' = r.network
              /\ lastRun' = Run("watch",
                                (IF IsNetwork(network) THEN <<"getPositions", "destroy">> ELSE <<>>)
                                    \o r.calls,
                                (IsNetwork(network) /\ network.destroyed) \/ r.threw)
    /\ UNCHANGED <<phase, container, appVars>>

\* the simulation of the live instance reports 'stabilized': the handler of
\* setupEvents saves the positions, then the handlers registered with
\* once('stabilized') run in the order registered, each switching physics off
Stabilized ==
    /\ phase = "mounted"
    /\ IsNetwork(network) /\ ~network.destroyed /\ network.physics
    /\ \E settled \in Layouts(network.nodes) :
          /\ nodePositions' = saveCurrentPositions([network EXCEPT !.pos = settled], nodePositions)
          /\ network' = [network EXCEPT !.pos = settled, !.once = <<>>,
                                        !.physics = IF network.once # <<>> THEN FALSE ELSE @]
    /\ lastRun' = Run("stabilized",
                      <<"getPositions">>
                          \o Flatten([i \in 1..Len(network.once) |-> OnceCalls(network.once[i])]),
                      FALSE)
    /\ UNCHANGED <<phase, container, props, appVars>>

\* the toolbar's reset button, or a call of resetView before the component is mounted
ClickResetView ==
    /\ phase \in {"setup", "mounted"}
    /\ IsNetwork(network) => Len(network.once) < MaxPending
    /\ \E r \in {resetView(network)} :
          /\ network' = r.network
          /\ lastRun' = Run("resetView", r.calls, r.threw)
    /\ UNCHANGED <<phase, container, props, nodePositions, appVars>>

ClickZoom(direction) ==
    /\ phase \in {"setup", "mounted"}
    /\ \E r \in {handleZoom(network, direction)} :
          /\ network' = r.network
          /\ lastRun' = Run("handleZoom", r.calls, r.threw)
    /\ UNCHANGED <<phase, container, props, nodePositions, appVars>>

\* a click on the canvas of the live instance: the handler of setupEvents
ClickNetwork(kind, id) ==
    /\ phase = "mounted"
    /\ IsNetwork(network) /\ ~network.destroyed
    /\ \/ kind = "node" /\ id \in IdsOf(network.nodes)
       \/ kind = "edge" /\ id \in IdsOf(network.edges)
    /\ lastRun' = Run("click", <<"emit " \o kind \o "-click " \o id>>, FALSE)
    /\ UNCHANGED <<phase, container, props, network, nodePositions, appVars>>

\* the component is unmounted: the template ref is cleared, then onUnmounted runs
Unmount ==
    /\ phase = "mounted"
    /\ phase' = "unmounted"
    /\ container' = FALSE
    /\ network' = IF IsNetwork(network) THEN Destroy(network) ELSE network
    /\ lastRun' = Run("onUnmounted", IF IsNetwork(network) THEN <<"destroy">> ELSE <<>>, FALSE)
    /\ UNCHANGED <<props, nodePositions, appVars>>

NextView ==
    \/ Mount
    \/ \E prps \in ViewProps : PropsChange(prps)
    \/ Stabilized
    \/ ClickResetView
    \/ \E direction \in {"in", "out"} : ClickZoom(direction)
    \/ \E kind \in {"node", "edge"}, id \in {"n1", "n2", "e1"} : ClickNetwork(kind, id)
    \/ Unmount

SpecView == InitView /\ [][NextView]_vars

(***************************************************************************)
(* Properties of the orchestrator, checked under Spec.                     *)
(***************************************************************************)
\* the 'Processing...' entries present in the conversation
LoadingEntries == {i \in 1..Len(messages) : messages[i].oid # 0}

\* the parsed payload of an exchange, when the reply text holds a parseable object
PayloadFound(ex) ==
    /\ ex.kind = "ok"
    /\ ex.content # <<>>
    /\ RegexMatch(ex.content).found
    /\ JsonParse(ex.content, RegexMatch(ex.content)).ok

Payload(ex) == JsonParse(ex.content, RegexMatch(ex.content)).obj

\* C1: last-started turn wins.  A turn that was still unresolved when a newer
\* turn started never has its result handled (applied or narrated), and no
\* turn's result is handled after the result of a turn that started later.
C1_LastStartedTurnWins ==
    /\ \A t \in 1..Len(turns) : turns[t].superseded => turns[t].seq = 0
    /\ \A a, b \in 1..Len(turns) :
          (a < b /\ turns[b].seq > 0) => turns[a].seq < turns[b].seq

\* C2: single in-flight call.  In every reachable state at most one agent call
\* is outstanding and at most one loading indicator is in the conversation.
C2_SingleInFlight ==
    /\ Cardinality(Awaiting) <= 1
    /\ Cardinality(LoadingEntries) <= 1

\* C3: when the result of the turn that completed last carries an updated
\* network (the payload's updated_cbn is a network object), the held network
\* equals the result's updated_cbn.
C3_NetworkReplaced ==
    (/\ response # NoResponse
     /\ PayloadFound(exchange)
     /\ Field(Payload(exchange), "updated_cbn").t = "cbn")
    => cbn = response.updated_cbn

Ids(list) == {Prop(list[i], "id") : i \in 1..Len(list)}

UniqueIds(list) == \A i, k \in 1..Len(list) : Prop(list[i], "id") = Prop(list[k], "id") => i = k

\* the invariants of the data model: unique node ids, unique edge ids, and
\* every edge endpoint the id of a node
WellFormed(net) ==
    /\ UniqueIds(net.nodes)
    /\ UniqueIds(net.edges)
    /\ \A i \in 1..Len(net.edges) :
          /\ Prop(net.edges[i], "from") \in Ids(net.nodes)
          /\ Prop(net.edges[i], "to") \in Ids(net.nodes)

\* C9: in every reachable state, after any turns and graph clicks, the held
\* network has unique node ids, unique edge ids and no dangling edge endpoint.
C9_HeldNetworkWellFormed == WellFormed(cbn)

\* C9 witness: a turn has completed with a result whose network has a dangling
\* edge endpoint, and a graph click has been handled.
C9_Witness ==
    /\ response # NoResponse
    /\ response.updated_cbn = NetDangling
    /\ clicks > 0

(***************************************************************************)
(* Properties of the pipeline, checked under SpecPipeline: cbn is the      *)
(* fallback network handed to processUserInput, exchange the agent         *)
(* exchange, response the result.                                          *)
(***************************************************************************)
\* the failures of the agent exchange: transport failure, non-success status,
\* no content, no object in the text, an object that does not parse, and a
\* payload whose network object lacks the fields of a network
ExchangeFailed(ex) ==
    \/ ex.kind \in {"fetch_rejects", "http_error", "no_content"}
    \/ ex.content = <<>>
    \/ ~PayloadFound(ex)
    \/ Field(Payload(ex), "updated_cbn").t = "object"

\* C4: for every failure of the agent exchange the result's updated network
\* is the supplied last known-good network.
C4_FailureYieldsFallbackNetwork ==
    (response # NoResponse /\ ExchangeFailed(exchange)) => response.updated_cbn = cbn

\* the reply text holds no parseable object
NoObjectFound(ex) == ex.kind = "ok" /\ ex.content # <<>> /\ ~PayloadFound(ex)

ScenarioA ==
    Exchange("ok", <<Prose, "\n", "{", Members[1].src, ",", Members[6].src, ",",
                     Members[10].src, ",", Members[13].src, "}">>)

\* C6: for Scenario A with fallback F the result is
\* {updated_cbn: F, tentative_suggestions: ["ok"], reflection_prompts: [], subclaims: []}.
C6_ScenarioA_SuggestionsOnly ==
    (response # NoResponse /\ exchange = ScenarioA) =>
        response = LLMResponse(cbn, <<"ok">>, Arr(<<>>), Arr(<<>>))

\* C6 as amended: for Scenario A with fallback F the result is {updated_cbn: F,
\* tentative_suggestions: [the prose sentence, "ok"], reflection_prompts: [],
\* subclaims: []}.
C6_ScenarioA_ProseFirst ==
    (response # NoResponse /\ exchange = ScenarioA) =>
        response = LLMResponse(cbn, <<Prose, "ok">>, Arr(<<>>), Arr(<<>>))

\* C6 witness: the pipeline has returned for Scenario A.
C6_Witness == response # NoResponse /\ exchange = ScenarioA

\* C7: the result's updated network is never null or undefined, and when the
\* parsed payload omits updated_cbn or sets it to null it is the fallback network.
C7_NetworkNeverNull ==
    response # NoResponse =>
        /\ response.updated_cbn.t \notin {"null", "undefined"}
        /\ (PayloadFound(exchange)
            /\ Field(Payload(exchange), "updated_cbn").t \in {"null", "undefined"})
           => response.updated_cbn = cbn

\* C7 witness: the try block has returned (the payload's suggestion "ok" is in
\* the result) for a payload whose updated_cbn is null.
C7_Witness ==
    /\ response # NoResponse
    /\ PayloadFound(exchange)
    /\ Field(Payload(exchange), "updated_cbn") = Null
    /\ Len(response.tentative_suggestions) = 2
    /\ response.tentative_suggestions[2] = "ok"

ListKeys == {"tentative_suggestions", "reflection_prompts", "subclaims"}

Omits(ex, key) == Field(Payload(ex), key) = Undefined

C10_DiffIdempotent ==
    (/\ diff.returned
     /\ diff.oldCBN = diff.newCBN
     /\ UniqueIds(diff.newCBN.nodes)
     /\ UniqueIds(diff.newCBN.edges))
    => diff.changes = <<>>

\* C10 witness: compareNetworks has returned for (N, N) with N of two nodes and
\* an edge.
C10_Witness ==
    /\ diff.returned
    /\ diff.oldCBN = diff.newCBN
    /\ UniqueIds(diff.newCBN.nodes)
    /\ Len(diff.newCBN.nodes) = 2
    /\ Len(diff.newCBN.edges) = 1

\* deep structural equality of two records: the same keys with the same values,
\* in whatever order the keys were inserted
DeepEqual(a, b) ==
    /\ Len(a) = Len(b)
    /\ {a[i] : i \in 1..Len(a)} = {b[i] : i \in 1..Len(b)}

\* the entry the diff owes for a candidate node: an addition when the previous
\* network has no node of its id, an update when the records differ structurally
OwedNodeEntry(oldCBN, newNode) ==
    LET at == FindById(oldCBN.nodes, Prop(newNode, "id"))
    IN IF at = 0 THEN <<"Added new node: " \o PropText(newNode, "name")>>
       ELSE IF ~DeepEqual(oldCBN.nodes[at], newNode)
       THEN <<"Updated node: " \o PropText(newNode, "name")>>
       ELSE <<>>

OwedEdgeEntry(oldCBN, newCBN, newEdge) ==
    LET at == FindById(oldCBN.edges, Prop(newEdge, "id"))
    IN IF at = 0
       THEN <<"Added new relationship: " \o NameById(newCBN.nodes, Prop(newEdge, "from"))
              \o " " \o Arrow \o " " \o NameById(newCBN.nodes, Prop(newEdge, "to"))>>
       ELSE IF ~DeepEqual(oldCBN.edges[at], newEdge)
       THEN <<"Updated relationship probabilities">>
       ELSE <<>>

\* the number of times e occurs in the list
Count(list, e) == Cardinality({i \in 1..Len(list) : list[i] = e})

\* C11: for networks with unique ids, the change list holds, for each candidate
\* node, exactly one 'added' entry when the previous network has no node of that
\* id, exactly one 'updated' entry when it has one and the two records differ
\* under deep structural equality, and no entry when they are structurally
\* equal; likewise for each candidate edge.
C11_OneEntryPerChange ==
    (/\ diff.returned
     /\ UniqueIds(diff.oldCBN.nodes) /\ UniqueIds(diff.oldCBN.edges)
     /\ UniqueIds(diff.newCBN.nodes) /\ UniqueIds(diff.newCBN.edges))
    => LET owed ==
               Flatten([i \in 1..Len(diff.newCBN.nodes) |->
                           OwedNodeEntry(diff.oldCBN, diff.newCBN.nodes[i])])
               \o Flatten([i \in 1..Len(diff.newCBN.edges) |->
                              OwedEdgeEntry(diff.oldCBN, diff.newCBN, diff.newCBN.edges[i])])
       IN /\ Len(diff.changes) = Len(owed)
          /\ \A k \in 1..Len(owed) : Count(diff.changes, owed[k]) = Count(owed, owed[k])

\* the records a list holds
Records(list) == {list[i] : i \in 1..Len(list)}

\* C12: removals are not reported.  When every node and every edge of the
\* candidate is a record of the previous network (whose ids are unique), the
\* change list is empty, whatever the previous network holds besides.
C12_RemovalsNotReported ==
    (/\ diff.returned
     /\ UniqueIds(diff.oldCBN.nodes) /\ UniqueIds(diff.oldCBN.edges)
     /\ Records(diff.newCBN.nodes) \subseteq Records(diff.oldCBN.nodes)
     /\ Records(diff.newCBN.edges) \subseteq Records(diff.oldCBN.edges))
    => diff.changes = <<>>

\* C12 witness: compareNetworks has returned for a previous network of two
\* nodes and an edge and a candidate that keeps one of the nodes and nothing else.
C12_Witness ==
    /\ diff.returned
    /\ UniqueIds(diff.oldCBN.nodes)
    /\ Len(diff.oldCBN.nodes) = 2 /\ Len(diff.oldCBN.edges) = 1
    /\ Len(diff.newCBN.nodes) = 1 /\ diff.newCBN.edges = <<>>
    /\ Records(diff.newCBN.nodes) \subseteq Records(diff.oldCBN.nodes)

\* the entries compareNetworks can push for a candidate node or edge
NodeEntries(node) ==
    {"Added new node: " \o PropText(node, "name"), "Updated node: " \o PropText(node, "name")}

EdgeEntries(newCBN, edge) ==
    {"Added new relationship: " \o NameById(newCBN.nodes, Prop(edge, "from"))
         \o " " \o Arrow \o " " \o NameById(newCBN.nodes, Prop(edge, "to")),
     "Updated relationship probabilities"}

RECURSIVE InOrderOf(_, _)
\* the entries are entries of the items, at most one for an item, in the items' order
InOrderOf(entries, items) ==
    IF entries = <<>> THEN TRUE
    ELSE IF items = <<>> THEN FALSE
    ELSE IF Head(entries) \in Head(items) THEN InOrderOf(Tail(entries), Tail(items))
    ELSE InOrderOf(entries, Tail(items))

\* C13: order preservation.  The entries of the change list follow the
\* candidate's node order and then the candidate's edge order: every entry
\* belongs to a candidate node or edge, and an entry of an earlier item comes
\* before an entry of a later one, all node entries before all edge entries.
C13_OrderPreserving ==
    diff.returned =>
        InOrderOf(diff.changes,
                  [i \in 1..Len(diff.newCBN.nodes) |-> NodeEntries(diff.newCBN.nodes[i])]
                  \o [i \in 1..Len(diff.newCBN.edges) |->
                         EdgeEntries(diff.newCBN, diff.newCBN.edges[i])])

\* C13 witness: compareNetworks has returned a list of three entries, two for
\* nodes of different names and one for an edge.
C13_Witness ==
    /\ diff.returned
    /\ Len(diff.changes) = 3
    /\ diff.changes[1] \in NodeEntries(diff.newCBN.nodes[1])
    /\ diff.changes[2] \in NodeEntries(diff.newCBN.nodes[2])
    /\ diff.changes[1] # diff.changes[2]
    /\ diff.changes[3] \in EdgeEntries(diff.newCBN, diff.newCBN.edges[1])

(***************************************************************************)
(* Properties of the graph view, checked under SpecView.                   *)
(***************************************************************************)
LiveNetwork == IsNetwork(network) /\ ~network.destroyed

\* C14: positions survive a rebuild.  Every position the rebuild re-applied
\* from the position map (n1 at (10,20)) is the node's position in the rebuilt
\* view, when the build returns and after its stabilization, until the user
\* resets the view.
C14_PositionsSurviveRebuild ==
    (LiveNetwork /\ ~network.reset) =>
        \A i \in 1..Len(network.applied) :
            network.pos[network.applied[i].id] = network.applied[i].pos

\* C15: without the rendering surface every operation of the view is a no-op:
\* no call is made on any instance, nothing throws, no instance exists before
\* the surface does; and once the surface is there the view is built, showing
\* the current node and edge collections.
C15_NoSurfaceNoOp ==
    /\ ~container =>
           /\ ~lastRun.threw
           /\ phase = "setup" => (network = NoNetwork /\ lastRun.calls = <<>> /\ nodePositions = <<>>)
    /\ phase = "mounted" =>
           (container /\ LiveNetwork /\ network.nodes = props.nodes /\ network.edges = props.edges)

\* C15 witness: the node collection changed before the surface existed, and
\* the watch callback ran.
C15_Witness == ~container /\ phase = "setup" /\ lastRun.handler = "watch"

\* C17: at every 'stabilized' event of a view, physics is disabled when its
\* handlers have run, and once disabled it stays disabled in every step that
\* is neither a rebuild nor a reset of the view.
C17_PhysicsOffAfterStabilized ==
    [][/\ lastRun'.handler = "stabilized" => ~network'.physics
       /\ (LiveNetwork /\ ~network.physics /\ lastRun'.handler \notin {"watch", "resetView"})
              => ~network'.physics]_vars

\* C17 witness: a rebuilt view has stabilized, and its physics is disabled.
C17_Witness ==
    /\ LiveNetwork /\ ~network.physics /\ ~network.reset
    /\ network.applied # <<>>
    /\ lastRun.handler = "stabilized"

\* the ids the position map has a position for
MapIds(map) == {map[i].id : i \in 1..Len(map)}

\* the first place of a call in a run, 0 when it was not made
FirstCall(calls, call) ==
    LET at == {i \in 1..Len(calls) : calls[i] = call}
    IN IF at = {} THEN 0 ELSE CHOOSE i \in at : \A k \in at : i <= k

\* C18: reset view enables physics and leaves the position map as it is; the
\* 'stabilized' event that follows on the same view disables physics and then
\* fits the viewport; and no step, a rebuild between the reset and its
\* stabilization included, removes an id from the position map.
C18_ResetViewProtocol ==
    [][/\ (lastRun'.handler = "resetView" /\ LiveNetwork)
              => (network'.physics /\ nodePositions' = nodePositions)
       /\ (lastRun'.handler = "stabilized" /\ network.reset)
              => /\ ~network'.physics
                 /\ FirstCall(lastRun'.calls, "setOptions physics off") > 0
                 /\ FirstCall(lastRun'.calls, "setOptions physics off")
                        < FirstCall(lastRun'.calls, "fit")
       /\ MapIds(nodePositions) \subseteq MapIds(nodePositions')]_vars

\* C18 witness: a view that was reset after its physics had been switched off
\* has stabilized: physics is off again, the viewport was fitted, and the
\* position map still holds its positions.
C18_Witness ==
    /\ LiveNetwork /\ network.reset /\ ~network.physics
    /\ lastRun = Run("stabilized", <<"getPositions", "setOptions physics off", "fit">>, FALSE)
    /\ MapIds(nodePositions) = {"n1", "n2"}

C19_ClicksLeaveModel ==
    [][clicks' # clicks =>
          /\ cbn' = cbn
          /\ turns' = turns /\ response' = response
          /\ \/ messages' = messages
             \/ /\ Len(messages') = Len(messages) + 1
                /\ SubSeq(messages', 1, Len(messages)) = messages
                /\ messages'[Len(messages')].sender = "bot"]_vars

\* C19 witness: a click on node 1 has been handled; its entry is the last of
\* the conversation.
C19_Witness ==
    /\ clicks > 0
    /\ messages[Len(messages)] = Msg("Selected node: Local Support\nStates: Weak, Strong", "bot")

\* C20: the held network changes only by whole-network replacement.  In every
\* step it is unchanged or becomes the updated network of the pipeline result
\* that the step completes; it never takes part of a result.
C20_WholeReplacementOnly ==
    [][\/ cbn' = cbn
       \/ /\ response' # NoResponse
          /\ response' # response \/ exchange' # exchange \/ turns' # turns
          /\ cbn' = response'.updated_cbn]_vars

\* C20 witness: a turn has completed with a result whose updated network is
\* another network than the held one.
C20_Witness ==
    /\ response # NoResponse
    /\ response.updated_cbn = NetSmall
    /\ \E t \in 1..Len(turns) : turns[t].st = "done"

(***************************************************************************)
(* The rebuild protocol of the graph view, checked under SpecView.         *)
(***************************************************************************)
\* the position map holds, for every node the view shows, the node's position
MapHolds(map, net) ==
    \A id \in IdsOf(net.nodes) :
        \E i \in 1..Len(map) : map[i] = [id |-> id, pos |-> net.pos[id]]

\* C21: rebuild ordering.  When the node or edge collections change while a
\* view exists, the callback reads the view's positions and has them in the
\* position map, then destroys the view, then constructs the new one; and
\* after every 'stabilized' event the position map holds the positions of the
\* live view.
C21_RebuildOrder ==
    [][/\ (lastRun'.handler = "watch" /\ LiveNetwork)
              => /\ MapHolds(nodePositions', network)
                 /\ 0 < FirstCall(lastRun'.calls, "getPositions")
                 /\ FirstCall(lastRun'.calls, "getPositions")
                        < FirstCall(lastRun'.calls, "destroy")
                 /\ FirstCall(lastRun'.calls, "destroy")
                        < FirstCall(lastRun'.calls, "new Network")
                 /\ IsNetwork(network') /\ ~network'.destroyed
       /\ lastRun'.handler = "stabilized" => MapHolds(nodePositions', network')]_vars

\* C21 witness: a view that had stabilized showing n1 and n2 was rebuilt for
\* another collection; the map holds both positions.
C21_Witness ==
    /\ lastRun.handler = "watch"
    /\ FirstCall(lastRun.calls, "destroy") > 0
    /\ LiveNetwork /\ network.nodes = <<"n2">>
    /\ MapIds(nodePositions) = {"n1", "n2"}

TryReturned(held, ex) == ~TryProcessUserInput(held, ex).threw

\* a network as the normalization leaves it: both collections are there,
\* every node has a list of states and a probability map
Normalized(net) ==
    /\ net.t = "cbn"
    /\ \A i \in 1..Len(net.nodes) :
          /\ Prop(net.nodes[i], "states")[1] = "array"
          /\ HasProp(net.nodes[i], "probabilities")

\* C23: defensive normalization.  For a parsed payload that carries a network
\* object, the result's network has a node list and an edge list (empty when
\* the payload left one out), and each of its nodes has a state list and a
\* probability map (empty when the payload's node had none).
C23_NetworkNormalized ==
    (/\ response # NoResponse
     /\ PayloadFound(exchange)
     /\ TryReturned(cbn, exchange)
     /\ Field(Payload(exchange), "updated_cbn").t \in {"cbn", "object"})
    => Normalized(response.updated_cbn)

\* the tokens i..j of the text are an object literal: braces around members
ObjectAt(content, i, j) ==
    /\ i < j /\ content[i] = "{" /\ content[j] = "}"
    /\ JsonParse(content, [found |-> TRUE, from |-> i, to |-> j]).ok

\* the whole text, white space aside, is one object literal
DirectlyParseable(content) ==
    LET text == TrimEnd(TrimStart(content))
    IN Len(text) >= 2 /\ ObjectAt(text, 1, Len(text))

ObjectsIn(content) ==
    {ij \in (1..Len(content)) \X (1..Len(content)) : ObjectAt(content, ij[1], ij[2])}

\* the first object literal of a text that has one, as <<from, to>>
FirstObject(content) ==
    CHOOSE ij \in ObjectsIn(content) : \A kl \in ObjectsIn(content) : ij[1] <= kl[1]

\* the suggestions of a parsed payload, when it lists them or leaves them out
Listed(v) == v.t \in {"undefined", "null", "array"}

OwnSuggestions(obj) == OrElse(Field(obj, "tentative_suggestions"), Arr(<<>>)).items

\* C24: for a reply text that is directly parseable as an object, the result's
\* tentative_suggestions are the payload's own, with nothing before them; for a
\* text that is not but contains an object literal, they are the text before
\* the first object literal, then the suggestions of that object in their order.
C24_ProsePrependedOnlyWhenScanned ==
    (response # NoResponse /\ exchange.kind = "ok" /\ ObjectsIn(exchange.content) # {}) =>
        LET content == exchange.content
            first == FirstObject(content)
            obj == JsonParse(content, [found |-> TRUE, from |-> first[1], to |-> first[2]]).obj
        IN Listed(Field(obj, "tentative_suggestions")) =>
               IF DirectlyParseable(content)
               THEN response.tentative_suggestions = OwnSuggestions(obj)
               ELSE response.tentative_suggestions
                        = <<Trim(SubSeq(content, 1, first[1] - 1))>> \o OwnSuggestions(obj)

\* the fenced text of an object body: a labeled opening fence, the body, a closing fence
Fenced(body) == <<FenceJson, "\n">> \o body \o <<"\n", Fence>>

\* the exchange is a directly parseable object wrapped in a code fence
IsFenced(ex) ==
    /\ ex.kind = "ok"
    /\ Len(ex.content) >= 6
    /\ LET body == SubSeq(ex.content, 3, Len(ex.content) - 2)
       IN ex.content = Fenced(body) /\ DirectlyParseable(body)

\* C25: code-fence markers are stripped.  For a valid payload wrapped in a
\* code fence the result is the result for the payload without the fence, and
\* the fence marker is no entry of tentative_suggestions.
C25_FenceStripped ==
    (response # NoResponse /\ IsFenced(exchange)) =>
        /\ response = processUserInput(cbn, Exchange("ok", SubSeq(exchange.content, 3,
                                                                Len(exchange.content) - 2)))
        /\ \A i \in 1..Len(response.tentative_suggestions) :
              response.tentative_suggestions[i] \notin {FenceJson, Fence}

(***************************************************************************)
(* The placeholders of the turns, checked under SpecHandler (calls that    *)
(* resolve and calls that raise).                                          *)
(***************************************************************************)
UserEntries(msgs) == SelectSeq(msgs, LAMBDA m : m.sender = "user")

====
